---- MODULE Spec2Model ----
(***************************************************************************)
(* Model of deeprl-snes: the gym wrappers of envs.py, the wrapper chain    *)
(* built by rllib.wrap_env, and the rollout generator, the advantage       *)
(* estimator, the PPO step, the checkpoint loader and the training loop of *)
(* policygradientpytorch.py.                                               *)
(*                                                                         *)
(* The emulator (retro / gym environment) is an external collaborator: a   *)
(* native step returns any frame, any reward and any done flag.            *)
(***************************************************************************)
EXTENDS Integers, Sequences, FiniteSets, TLC

(***************************************************************************)
(* Bounds of the model                                                     *)
(***************************************************************************)
\* largest frame-skip count tried for SkipFrames(skip=...)
MaxSkip == 2
\* largest window tried for FrameStack(k=...)
MaxK == 2
\* number of arrays returned by ButtonsRemapper.action the caller keeps
MaxHeld == 2
\* number of next() calls made on the generator
MaxCalls == 2
\* largest windowlength tried for experiencegenerator
MaxWindow == 2
\* largest episodesteps cap tried for experiencegenerator
MaxEpisodeSteps == 2
\* longest trajectory segment handed to generalized_advantage_estimation
MaxLen == 3
\* normalized advantages are kept to 1/Res, rounded toward zero
Res == 1000
\* largest maxsteps given to train
MaxTrainSteps == 20

(***************************************************************************)
(* Small helpers                                                           *)
(***************************************************************************)
Max(a, b) == IF a >= b THEN a ELSE b

Min(a, b) == IF a <= b THEN a ELSE b

Sign(x) == IF x > 0 THEN 1 ELSE IF x < 0 THEN -1 ELSE 0

\* the last n entries of s (all of s when it is shorter)
LastN(s, n) == SubSeq(s, Max(1, Len(s) - n + 1), Len(s))

RECURSIVE SumSeq(_)
SumSeq(s) == IF s = <<>> THEN 0 ELSE Head(s) + SumSeq(Tail(s))

\* n copies of x
Copies(x, n) == [i \in 1..n |-> x]

(***************************************************************************)
(* Frames.  A raw frame is a strip of two RGB pixels, flattened to         *)
(* <<r1, g1, b1, r2, g2, b2>> with uint8 channels.                         *)
(***************************************************************************)
\* white pixel, black pixel
FrameA == <<255, 255, 255, 0, 0, 0>>
\* black pixel, red pixel
FrameB == <<0, 0, 0, 255, 0, 0>>

RawFrames == {FrameA, FrameB}

\* rewards the emulator may hand out for one native step
NativeRewards == {-2, 0, 1}

\* discrete actions of the agent
Actions == {0, 1}

\* what one native env.step(action) can return
NativeResults == [frame : RawFrames, reward : NativeRewards, done : BOOLEAN]

VARIABLES
    \* ---- wrapper chain of wrap_env ----
    cfg,        \* keyword arguments of wrap_env
    frames,     \* FrameStack.frames, the deque(maxlen=k)
    out,        \* what the last reset()/step() of the outermost wrapper returned
    nlog,       \* native env.step calls made by the current/last step(), in order
    pc,         \* "idle", or "skip" inside the for loop of SkipFrames.step
    loc         \* locals of the SkipFrames.step in progress

pipeVars == <<cfg, frames, out, nlog, pc, loc>>

VARIABLES
    \* ---- ButtonsRemapper ----
    remap,      \* the adapter: constructor arguments, outcome, self._actions
    rets        \* the arrays action() handed out that the caller still holds

remapVars == <<remap, rets>>

VARIABLES
    \* ---- experiencegenerator ----
    gpc,        \* where the generator is: "created", "reset", "act", "yielded"
                \* (suspended at its yield) or "stopped" (returned)
    gen,        \* locals of experiencegenerator
    yielded,    \* the tuple of the last yield
    gg,         \* history kept for the claims: last reset frame, frames of the
                \* episode, what select_action and env.step were handed
    calls       \* number of next() calls made

genVars == <<gpc, gen, yielded, gg, calls>>

VARIABLES
    \* ---- generalized_advantage_estimation ----
    gae         \* one call: its arguments, and once it returned the delta and
                \* advantages arrays as they stood before the normalization
                \* and the array returned

gaeVars == <<gae>>

VARIABLES
    \* ---- ppostep ----
    ppo         \* one call: its arguments, and once it returned the tensors
                \* it computed and the number of optimizer steps taken

ppoVars == <<ppo>>

VARIABLES
    \* ---- loadnetwork and train ----
    tr,         \* locals of train and where it is
    th,         \* history kept for the claims: calls made, what they were handed
    disk        \* the checkpoint file

trainVars == <<tr, th, disk>>

vars == <<pipeVars, remapVars, genVars, gaeVars, ppoVars, trainVars>>

(***************************************************************************)
(* envs.py wrappers                                                        *)
(***************************************************************************)
\* cv2.cvtColor(frame, COLOR_RGB2GRAY) of one pixel: 0.299 R + 0.587 G + 0.114 B,
\* rounded to the nearest uint8
Gray(r, g, b) == (299 * r + 587 * g + 114 * b + 500) \div 1000

\* WarpFrame.observation: grayscale, area-average resize (two pixels to one),
\* then a trailing channel axis of size 1
WarpFrame_observation(frame) ==
    LET g1 == Gray(frame[1], frame[2], frame[3])
        g2 == Gray(frame[4], frame[5], frame[6])
    IN  <<(g1 + g2 + 1) \div 2>>

\* RewardScaler.reward
RewardScaler_reward(reward, rewardscaling) == reward * rewardscaling

\* RewardClipper.reward: sign of the reward
RewardClipper_reward(reward) == Sign(reward)

\* RewardTimeDump: a fixed penalty subtracted from every step's reward
RewardTimeDump_reward(reward, timepenalty) == reward - timepenalty

\* SkipFrames.step before its loop: total_reward = 0.0, obs = done = None,
\* no iteration done yet
SkipFrames_enter(action) ==
    [action |-> action, i |-> 0, obs |-> <<>>, total_reward |-> 0, done |-> FALSE]

\* SkipFrames.step, one iteration of the for loop: res is what
\* self.env.step(action) returned
SkipFrames_iter(l, res) ==
    [l EXCEPT !.i = l.i + 1,
              !.obs = res.frame,
              !.total_reward = l.total_reward + res.reward,
              !.done = res.done]

\* (mutant) the loop without its break on done
SkipFrames_exit_nobreak(skip, l) == l.i >= skip

\* SkipFrames.step: whether the loop is left after the iteration that produced l
\* (the break on done, or range(self._skip) exhausted)
SkipFrames_exit(skip, l) == l.done \/ l.i >= skip

\* concatenation of the frames along the channel axis (LazyFrames._force)
RECURSIVE LazyFrames_force(_)
LazyFrames_force(fs) ==
    IF fs = <<>> THEN <<>> ELSE Head(fs) \o LazyFrames_force(Tail(fs))

\* deque.append on a deque(maxlen=k)
DequeAppend(q, x, k) == LastN(Append(q, x), k)

\* FrameStack.reset: the deque after the n remaining appends of ob
RECURSIVE FrameStack_fill(_, _, _, _)
FrameStack_fill(q, ob, k, n) ==
    IF n = 0 THEN q ELSE FrameStack_fill(DequeAppend(q, ob, k), ob, k, n - 1)

\* (mutant) reset that appends the first frame once instead of k times
FrameStack_reset_once(q, ob, k) == DequeAppend(q, ob, k)

\* FrameStack.reset: for _ in range(self.k): self.frames.append(ob)
FrameStack_reset(q, ob, k) == FrameStack_fill(q, ob, k, k)

\* FrameStack.step: the deque after self.frames.append(ob)
FrameStack_step(q, ob, k) == DequeAppend(q, ob, k)

\* FrameStack._get_ob: the assert, then LazyFrames(list(self.frames))
FrameStack_get_ob(q, k) ==
    IF Len(q) = k
    THEN [err |-> "none", obs |-> LazyFrames_force(q), nframes |-> Len(q)]
    ELSE [err |-> "AssertionError", obs |-> <<>>, nframes |-> 0]

(***************************************************************************)
(* rllib.wrap_env: the wrapper chain                                       *)
(***************************************************************************)
\* values tried for wrap_env(rewardscaling=...)
RewardScalings == {1, 2}

\* values tried for wrap_env(timepenalty=...)
TimePenalties == {0, 1}

\* keyword arguments of wrap_env (movies off, keepcolor off, pad_action None)
Configs ==
    [rewardscaling : RewardScalings, skipframes : 1..MaxSkip,
     stackframes : 1..MaxK, timepenalty : TimePenalties, cliprewards : BOOLEAN]

\* one step of the environment SkipFrames wraps: the native step seen through
\* NoopResetEnv (a step passes through), RewardScaler and, with cliprewards,
\* RewardClipper
wrap_env_inner(c, res) ==
    LET scaled == RewardScaler_reward(res.reward, c.rewardscaling)
    IN  [res EXCEPT !.reward = IF c.cliprewards
                                THEN RewardClipper_reward(scaled)
                                ELSE scaled]

\* the wrappers wrap_env puts around SkipFrames, applied to what
\* SkipFrames.step returned (s): WarpFrame, FrameStack, RewardTimeDump.
\* q is the FrameStack deque before the call.
wrap_env_outer(c, q, s) ==
    LET w == WarpFrame_observation(s.obs)
        q2 == FrameStack_step(q, w, c.stackframes)
        g == FrameStack_get_ob(q2, c.stackframes)
    IN  [frames |-> q2,
         out |-> IF g.err = "none"
                 THEN [op |-> "step", err |-> "none", obs |-> g.obs,
                       nframes |-> g.nframes, first |-> <<>>, stale |-> FALSE,
                       reward |-> RewardTimeDump_reward(s.total_reward, c.timepenalty),
                       done |-> s.done, skip |-> s]
                 ELSE [op |-> "step", err |-> g.err, obs |-> <<>>, nframes |-> 0,
                       first |-> <<>>, stale |-> FALSE, reward |-> 0,
                       done |-> FALSE, skip |-> s]]

\* reset() of the environment wrap_env returns; f is the frame the native
\* reset hands back.  "first" keeps the processed first frame of the episode,
\* "stale" whether the deque held a different frame when reset was called.
wrap_env_reset(c, q, f) ==
    LET w == WarpFrame_observation(f)
        q2 == FrameStack_reset(q, w, c.stackframes)
        g == FrameStack_get_ob(q2, c.stackframes)
    IN  [frames |-> q2,
         out |-> [op |-> "reset", err |-> g.err, obs |-> g.obs,
                  nframes |-> g.nframes, first |-> w,
                  stale |-> \E i \in DOMAIN q : q[i] # w,
                  reward |-> 0, done |-> FALSE, skip |-> SkipFrames_enter(0)]]

NoOut ==
    [op |-> "none", err |-> "none", obs |-> <<>>, nframes |-> 0, first |-> <<>>,
     stale |-> FALSE, reward |-> 0, done |-> FALSE, skip |-> SkipFrames_enter(0)]

(***************************************************************************)
(* envs.py: ButtonsRemapper                                                *)
(***************************************************************************)
GENESIS_BUTTONS ==
    <<"B", "A", "MODE", "START", "UP", "DOWN", "LEFT", "RIGHT", "C", "Y", "X", "Z">>

SNES_BUTTONS ==
    <<"B", "Y", "SELECT", "START", "UP", "DOWN", "LEFT", "RIGHT", "A", "X", "L", "R">>

\* GradiusDiscretizer's curated actions
GradiusActions ==
    << <<"DOWN">>, <<"LEFT">>, <<"RIGHT">>, <<"UP">>,
       <<"DOWN", "RIGHT">>, <<"RIGHT", "UP">>, <<"UP", "LEFT">>, <<"LEFT", "DOWN">>,
       <<"A">>, <<"B">>, <<"X">>, <<"Y">>, <<"L">>, <<"R">>, <<"SELECT">>, <<"START">> >>

\* ColumnsGenesisDiscretizer's curated actions
ColumnsActions == << <<"DOWN">>, <<"LEFT">>, <<"RIGHT">>, <<"A">> >>

\* further (buttonmap-independent) action lists a caller may pass: an action
\* pressing nothing, one naming a button twice, one naming an unknown button
OtherActionLists ==
    { << <<>>, <<"UP", "UP">> >>,
      << <<"B">>, <<"A", "TURBO">>, <<"UP">> >> }

ButtonMaps == {GENESIS_BUTTONS, SNES_BUTTONS}

ActionLists == {GradiusActions, ColumnsActions} \cup OtherActionLists

\* list.index(x): the first position of x (1-based here), 0 for "x is not in
\* list", where Python raises ValueError
ListIndex(list, x) ==
    IF \E j \in DOMAIN list : list[j] = x
    THEN CHOOSE j \in DOMAIN list :
            list[j] = x /\ \A h \in DOMAIN list : list[h] = x => j <= h
    ELSE 0

\* (mutant) the inner loop dropping a button the console does not have
RECURSIVE ButtonsRemapper_press_skip(_, _, _, _)
ButtonsRemapper_press_skip(buttonmap, action, b, arr) ==
    IF b > Len(action)
    THEN [err |-> "none", arr |-> arr]
    ELSE LET j == ListIndex(buttonmap, action[b])
         IN  ButtonsRemapper_press_skip(buttonmap, action, b + 1,
                    IF j = 0 THEN arr ELSE [arr EXCEPT ![j] = TRUE])

\* the inner loop of ButtonsRemapper.__init__ from button b of the action on:
\* arr[buttonmap.index(button)] = True.  err is set when index() raised.
RECURSIVE ButtonsRemapper_press(_, _, _, _)
ButtonsRemapper_press(buttonmap, action, b, arr) ==
    IF b > Len(action)
    THEN [err |-> "none", arr |-> arr]
    ELSE LET j == ListIndex(buttonmap, action[b])
         IN  IF j = 0
             THEN [err |-> "ValueError", arr |-> arr]
             ELSE ButtonsRemapper_press(buttonmap, action, b + 1,
                                        [arr EXCEPT ![j] = TRUE])

\* the outer loop of ButtonsRemapper.__init__ from action a on
RECURSIVE ButtonsRemapper_build(_, _, _, _)
ButtonsRemapper_build(buttonmap, actions, a, table) ==
    IF a > Len(actions)
    THEN [status |-> "ok", table |-> table]
    ELSE LET p == ButtonsRemapper_press(buttonmap, actions[a], 1,
                                        [j \in 1..Len(buttonmap) |-> FALSE])
         IN  IF p.err # "none"
             THEN [status |-> p.err, table |-> <<>>]
             ELSE ButtonsRemapper_build(buttonmap, actions, a + 1,
                                        Append(table, p.arr))

\* ButtonsRemapper.__init__(env, buttonmap, actions): the adapter, or the
\* exception that left the constructor (then there is no adapter object)
ButtonsRemapper_init(buttonmap, actions) ==
    LET r == ButtonsRemapper_build(buttonmap, actions, 1, <<>>)
    IN  [status |-> r.status, buttonmap |-> buttonmap, actions |-> actions,
         table |-> r.table]

\* (mutant) action() without the copy: the stored array itself is returned
ButtonsRemapper_action_nocopy(rm, a) ==
    [idx |-> a, kind |-> "table", val |-> <<>>, ret |-> rm.table[a]]

\* ButtonsRemapper.action(a): self._actions[a].copy(), a new array owned by
\* the caller.  A reference is either a caller-owned array ("own", with its
\* content) or the array stored in self._actions[idx] ("table").
ButtonsRemapper_action(rm, a) ==
    [idx |-> a, kind |-> "own", val |-> rm.table[a], ret |-> rm.table[a]]

\* the content of the array a held reference points to
Deref(rm, r) == IF r.kind = "own" THEN r.val ELSE rm.table[r.idx]

(***************************************************************************)
(* policygradientpytorch.py: prepro and experiencegenerator                *)
(***************************************************************************)
\* Emulator screens: a strip of five RGB pixels.
ScreenP ==
    << <<255, 255, 255>>, <<9, 9, 9>>, <<0, 0, 0>>, <<9, 9, 9>>, <<255, 0, 0>> >>

ScreenQ ==
    << <<0, 0, 255>>, <<0, 0, 0>>, <<7, 7, 7>>, <<0, 0, 0>>, <<0, 255, 0>> >>

Screens == {ScreenP, ScreenQ}

\* rewards retro's env.step may return
GenRewards == {0, 1}

\* log-probability the policy reports for each action (m.log_prob(action))
PolicyLogProb == [a \in Actions |-> -(a + 1)]

\* what policy.select_action(st) can return: the sampled action and its
\* log-probability
Samples == {[action |-> a, p |-> PolicyLogProb[a]] : a \in Actions}

\* values tried for episodesteps: None, or a cap
EpisodeSteps ==
    {[none |-> TRUE, n |-> 0]} \cup {[none |-> FALSE, n |-> i] : i \in 1..MaxEpisodeSteps}

\* prepro: every 4th pixel (image[::4, ::4, :]), skimage rgb2gray
\* (0.2125 R + 0.7154 G + 0.0721 B of the channels scaled to [0, 1]), minus 0.5.
\* Intensities are kept in units of 1/2550000.
prepro(image) ==
    [i \in 1..((Len(image) + 3) \div 4) |->
        LET px == image[4 * (i - 1) + 1]
        IN  2125 * px[1] + 7154 * px[2] + 721 * px[3] - 1275000]

\* deque([x for _ in range(windowlength)], maxlen=windowlength)
NewStatesQueue(x, windowlength) == [i \in 1..windowlength |-> x]

\* experiencegenerator before its first next(): episode = 0, totalsteps = 0,
\* episoderewards = []
GenCreate(windowlength, episodesteps) ==
    [windowlength |-> windowlength, episodesteps |-> episodesteps,
     episode |-> 0, totalsteps |-> 0, episoderewards |-> <<>>,
     observation |-> <<>>, statesqueue |-> <<>>, xbatch |-> <<>>,
     step |-> 0, rewards |-> 0]

\* top of the outer loop: env.reset() returned f; x, statesqueue, xbatch, step
\* and rewards are reinitialised
GenResetEpisode(g, f) ==
    LET q == NewStatesQueue(prepro(f), g.windowlength)
    IN  [g EXCEPT !.observation = f, !.statesqueue = q, !.xbatch = q,
                  !.step = 0, !.rewards = 0]

\* the inner loop up to its yield: s is what select_action(st) returned for
\* st = xbatch, res what env.step(action) returned.  Gives the new deque, the
\* tuple yielded, and what the policy and the environment were handed.
GenActStep(g, s, res) ==
    LET q == DequeAppend(g.statesqueue, prepro(res.frame), g.windowlength)
    IN  [statesqueue |-> q,
         st |-> g.xbatch,
         envaction |-> s.action,
         tuple |-> [valid |-> TRUE, observation |-> g.observation,
                    xbatch |-> g.xbatch, p |-> s.p, action |-> s.action,
                    reward |-> res.reward, newobservation |-> res.frame,
                    newxbatch |-> q, done |-> res.done]]

\* after the yield: rewards += reward; step += 1
GenCount(g, y) == [g EXCEPT !.rewards = g.rewards + y.reward, !.step = g.step + 1]

\* the test that leaves the inner loop, on the locals after GenCount
GenEpisodeOver(g, y) ==
    y.done \/ (~g.episodesteps.none /\ g.step >= g.episodesteps.n)

\* (mutant) the next step keeps the old stacked observation
GenAdvance_stale(g, y) == [g EXCEPT !.observation = y.newobservation]

\* observation = newobservation; xbatch = newxbatch
GenAdvance(g, y) ==
    [g EXCEPT !.observation = y.newobservation, !.xbatch = y.newxbatch]

\* after the inner loop: totalsteps += step; episoderewards.append(rewards);
\* episode += 1
GenEndEpisode(g) ==
    [g EXCEPT !.totalsteps = g.totalsteps + g.step,
              !.episoderewards = Append(g.episoderewards, g.rewards),
              !.episode = g.episode + 1]

\* (mutant) a generator that returns when its episode ends
GenAfterEpisode_return(g) == "stopped"

\* where control goes after an episode ended: the outer "while True" starts
\* the next episode
GenAfterEpisode(g) == "reset"

NoTuple ==
    [valid |-> FALSE, observation |-> <<>>, xbatch |-> <<>>, p |-> 0, action |-> 0,
     reward |-> 0, newobservation |-> <<>>, newxbatch |-> <<>>, done |-> FALSE]

NoHistory ==
    [resetframe |-> <<>>, freshreset |-> FALSE, lastdone |-> FALSE,
     afterdone |-> FALSE, ephist |-> <<>>, st |-> <<>>, envaction |-> 0,
     sample |-> [action |-> 0, p |-> 0]]

(***************************************************************************)
(* policygradientpytorch.py: generalized_advantage_estimation              *)
(***************************************************************************)
\* gamma and lam are given in halves; values, rewards and lastvalue are
\* integers.  delta and advantages are kept exactly, in units of 1/Q: with
\* gamma * lam a multiple of 1/4, index t of a segment of n entries is a
\* multiple of 1 / (2 * 4^(n - t)).
Q == 2 * 4 ^ (MaxLen - 1)

\* eps = np.finfo(np.float32).eps = 2^-23 = 1 / EpsInv
EpsInv == 8388608

GaeValues == {0, 1}

GaeRewards == {0, 1}

Gammas == {1, 2}

Lams == {0, 1, 2}

GaeInputs ==
    UNION {[values : [1..n -> GaeValues], rewards : [1..n -> GaeRewards],
            terminals : [1..n -> BOOLEAN], lastvalue : GaeValues,
            gamma : Gammas, lam : Lams] : n \in 1..MaxLen}

Abs(x) == IF x < 0 THEN -x ELSE x

\* (not terminals[t]) used as a number
NotTerminal(d) == IF d THEN 0 ELSE 1

\* largest m in lo..hi with m * m <= x
RECURSIVE ISqrtSearch(_, _, _)
ISqrtSearch(x, lo, hi) ==
    IF lo >= hi THEN lo
    ELSE LET mid == (lo + hi + 1) \div 2
         IN  IF mid * mid <= x THEN ISqrtSearch(x, mid, hi)
             ELSE ISqrtSearch(x, lo, mid - 1)

ISqrt(x) == ISqrtSearch(x, 0, 46340)

\* (mutant) the last step bootstraps from lastvalue even when it is terminal
GaeDeltaLast_bootstrap(in) ==
    LET n == Len(in.values)
    IN  Q * in.rewards[n] + (Q \div 2) * in.gamma * in.lastvalue - Q * in.values[n]

\* delta[-1] = rewards[-1] + gamma * lastvalue * (not terminals[-1]) - values[-1]
GaeDeltaLast(in) ==
    LET n == Len(in.values)
    IN  Q * in.rewards[n]
        + (Q \div 2) * in.gamma * in.lastvalue * NotTerminal(in.terminals[n])
        - Q * in.values[n]

\* delta[t] = rewards[t] + gamma * values[t + 1] * (not terminals[t]) - values[t]
GaeDelta(in, t) ==
    Q * in.rewards[t]
    + (Q \div 2) * in.gamma * in.values[t + 1] * NotTerminal(in.terminals[t])
    - Q * in.values[t]

\* (mutant) the advantage of a terminal step still takes in the next one
GaeAdvantage_noterm(in, t, d, lastadv) ==
    d + (in.gamma * in.lam * lastadv) \div 4

\* (mutant) lam is not applied
GaeAdvantage_nolam(in, t, d, lastadv) ==
    d + (in.gamma * NotTerminal(in.terminals[t]) * lastadv) \div 2

\* delta[t] + gamma * lam * (not terminals[t]) * lastadv
GaeAdvantage(in, t, d, lastadv) ==
    d + (in.gamma * in.lam * NotTerminal(in.terminals[t]) * lastadv) \div 4

\* the loop "for t in reversed(range(len(values) - 1))": t is the index about
\* to be written, acc the two arrays and lastadv so far
RECURSIVE GaeLoop(_, _, _)
GaeLoop(in, t, acc) ==
    IF t < 1 THEN acc
    ELSE LET d == GaeDelta(in, t)
             a == GaeAdvantage(in, t, d, acc.lastadv)
         IN  GaeLoop(in, t - 1,
                     [delta |-> [acc.delta EXCEPT ![t] = d],
                      advantages |-> [acc.advantages EXCEPT ![t] = a],
                      lastadv |-> a])

\* the arrays before the normalization: np.zeros, the last entry, the loop
GaeEstimate(in) ==
    LET n == Len(in.values)
        zeros == [i \in 1..n |-> 0]
        dl == GaeDeltaLast(in)
    IN  GaeLoop(in, n - 1,
                [delta |-> [zeros EXCEPT ![n] = dl],
                 advantages |-> [zeros EXCEPT ![n] = dl],
                 lastadv |-> dl])

\* advantages - np.mean(advantages), times n so that it stays an integer:
\* c[i] = n * a[i] - sum(a) is the centred value in units of 1 / (n Q)
GaeCentred(a) ==
    LET n == Len(a)
    IN  [i \in 1..n |-> n * a[i] - SumSeq(a)]

\* (mutant) the divisor without eps
GaeDivisor_noeps(a) ==
    LET n == Len(a)
        c == GaeCentred(a)
    IN  [std |-> ISqrt(n * SumSeq([i \in 1..n |-> c[i] * c[i]])), eps |-> 0]

\* np.std(advantages) + eps in units of 1 / (n n Q): the standard deviation
\* is sqrt(n * sum(c^2)), rounded down, and eps = 1 / EpsInv is
\* (n n Q) / EpsInv.  The two terms are kept apart: the divisor is
\* std + eps / EpsInv.
GaeDivisor(a) ==
    LET n == Len(a)
        c == GaeCentred(a)
    IN  [std |-> ISqrt(n * SumSeq([i \in 1..n |-> c[i] * c[i]])), eps |-> n * n * Q]

\* num / (d.std + d.eps / EpsInv) in units of 1/Res, rounded toward zero;
\* numpy gives nan for 0 / 0
GaeDivide(num, d) ==
    IF d.std = 0 /\ d.eps = 0 THEN "nan"
    ELSE IF d.std = 0 THEN Sign(num) * ((Abs(num) * Res * EpsInv) \div d.eps)
    ELSE Sign(num) * ((Abs(num) * Res) \div (d.std + d.eps \div EpsInv))

\* (advantages - np.mean(advantages)) / (np.std(advantages) + eps), in units
\* of 1/Res
GaeNormalize(a) ==
    LET n == Len(a)
        c == GaeCentred(a)
        d == GaeDivisor(a)
    IN  [i \in 1..n |-> GaeDivide(c[i] * n, d)]

\* the whole function; divisor is the value of np.std(advantages) + eps
generalized_advantage_estimation(in) ==
    LET e == GaeEstimate(in)
    IN  [delta |-> e.delta, advantages |-> e.advantages,
         divisor |-> GaeDivisor(e.advantages),
         ret |-> GaeNormalize(e.advantages)]

NoGae ==
    [delta |-> <<>>, advantages |-> <<>>, divisor |-> [std |-> 0, eps |-> 0],
     ret |-> <<>>]

(***************************************************************************)
(* policygradientpytorch.py: ppostep                                       *)
(***************************************************************************)
\* Probability ratios, advantages, values and epscut are kept in tenths;
\* products and squares are then in hundredths.

\* newprob / prob of a sample, as the network and the stored baseprobs give it
PpoRatios == {1, 9, 10, 11, 50}

PpoAdvantages == {-10, 0, 10}

\* values stored at collection time
PpoValues == {0, 10}

\* values the network gives now (policy.action_logprobs_value)
PpoNewValues == {-5, 0, 1, 10, 15}

\* epscut: 0.1 (the default of train) or 0.2
PpoEpscuts == {1, 2}

PpoSamples ==
    [ratio : PpoRatios, advantage : PpoAdvantages, value : PpoValues,
     newvalue : PpoNewValues]

\* a minibatch of one or two samples
PpoBatches == {<<x>> : x \in PpoSamples} \cup {<<x, y>> : x, y \in PpoSamples}

\* torch.clamp(input, min, max)
torch_clamp(x, lo, hi) == Max(lo, Min(x, hi))

\* torch.clamp(input, min): with one bound given by position, the bound is
\* min and there is no max
torch_clamp_min(x, lo) == Max(lo, x)

\* (mutant) the surrogate without the clipped branch
PpoClipping_unclipped(rt, adv, epscut) == rt * adv

\* torch.min(rt * adv, torch.clamp(rt, 1 - epscut, 1 + epscut) * adv)
PpoClipping(rt, adv, epscut) ==
    Min(rt * adv, torch_clamp(rt, 10 - epscut, 10 + epscut) * adv)

\* values + torch.clamp(newvalues - values, epscut), for one sample
PpoNewValueClipped(value, newvalue, epscut) ==
    value + torch_clamp_min(newvalue - value, epscut)

\* the tensors of one call, sample by sample; pgloss and valueloss without
\* their averaging and coefficients (the sums over the minibatch)
ppostep(batch, epscut) ==
    LET n == Len(batch)
        clippings == [i \in 1..n |->
                         PpoClipping(batch[i].ratio, batch[i].advantage, epscut)]
        returns == [i \in 1..n |-> batch[i].advantage + batch[i].value]
        valuelosses == [i \in 1..n |->
                           (batch[i].newvalue - returns[i]) * (batch[i].newvalue - returns[i])]
        newvalues_clipped == [i \in 1..n |->
                                 PpoNewValueClipped(batch[i].value, batch[i].newvalue, epscut)]
        valuelosses_clipped == [i \in 1..n |->
                                   (newvalues_clipped[i] - returns[i])
                                       * (newvalues_clipped[i] - returns[i])]
        worst == [i \in 1..n |-> Max(valuelosses[i], valuelosses_clipped[i])]
    IN  [clippings |-> clippings, returns |-> returns, valuelosses |-> valuelosses,
         newvalues_clipped |-> newvalues_clipped,
         valuelosses_clipped |-> valuelosses_clipped, worst |-> worst,
         pgloss |-> -SumSeq(clippings), valueloss |-> SumSeq(worst)]

NoPpo ==
    [clippings |-> <<>>, returns |-> <<>>, valuelosses |-> <<>>,
     newvalues_clipped |-> <<>>, valuelosses_clipped |-> <<>>, worst |-> <<>>,
     pgloss |-> 0, valueloss |-> 0]

(***************************************************************************)
(* policygradientpytorch.py: loadnetwork and train                         *)
(***************************************************************************)
\* The network is known by where its parameters came from and by the number
\* of optimizer steps applied to them since; what it computes for a sample
\* (log-probability, value) is known by the sample and by that number.

\* if not networkupdates % 10
CheckpointEvery == 10

\* Policy(env)
NewPolicy == [origin |-> "fresh", version |-> 0]

\* what the checkpoint file can hold when train starts: nothing (no file),
\* bytes that do not unpickle, or a network saved earlier
DiskStates ==
    {[state |-> "missing", policy |-> NewPolicy],
     [state |-> "corrupt", policy |-> NewPolicy],
     [state |-> "saved", policy |-> [origin |-> "checkpoint", version |-> 0]]}

\* torch.load(checkpoint): the object stored, or an exception
torch_load(file) ==
    IF file.state = "saved"
    THEN [raised |-> FALSE, policy |-> file.policy]
    ELSE [raised |-> TRUE, policy |-> NewPolicy]

\* torch.save(policy, checkpoint)
torch_save(policy) ==
    [state |-> "saved", policy |-> [origin |-> "checkpoint", version |-> policy.version]]

\* (mutant) loadnetwork without the except clause
loadnetwork_noexcept(file, restart) ==
    IF restart THEN [raised |-> FALSE, policy |-> NewPolicy, reads |-> 0]
    ELSE [raised |-> torch_load(file).raised, policy |-> torch_load(file).policy,
          reads |-> 1]

\* loadnetwork: reads counts the torch.load calls made, raised tells whether
\* an exception leaves the function
loadnetwork(file, restart) ==
    IF restart THEN [raised |-> FALSE, policy |-> NewPolicy, reads |-> 0]
    ELSE IF torch_load(file).raised
         THEN [raised |-> FALSE, policy |-> NewPolicy, reads |-> 1]
         ELSE [raised |-> FALSE, policy |-> torch_load(file).policy, reads |-> 1]

TrainConfigs ==
    [maxsteps : {0, 3, MaxTrainSteps}, minibatchsize : {1, 2}, nminibatches : {1, 2},
     optimizersteps : {1, 2}, restart : BOOLEAN]

\* minibatchsize * nminibatches
TrainBatch(c) == c.minibatchsize * c.nminibatches

\* np.random.permutation(range(n)), with indices counted from 1
np_random_permutation(n) ==
    {p \in [1..n -> 1..n] : \A i, j \in 1..n : p[i] = p[j] => i = j}

\* (mutant) slices that advance by one index
TrainBatchIdx_overlap(idx, i, minibatchsize) == SubSeq(idx, i + 1, i + minibatchsize)

\* idx[i*minibatchsize:(i+1)*minibatchsize], i counted from 0
TrainBatchIdx(idx, i, minibatchsize) ==
    SubSeq(idx, i * minibatchsize + 1, (i + 1) * minibatchsize)

\* what next(expgen) yields: id numbers the transitions pulled, ver is the
\* network that select_action used for its log-probability
TrainSample(id, policy) == [id |-> id, ver |-> policy.version]

\* (mutant) the range of the list comprehension is one short
TrainCollected_short(samples, c) == Len(samples) >= TrainBatch(c) - 1

\* the list comprehension [next(expgen) for _ in range(...)] is complete
TrainCollected(samples, c) == Len(samples) >= TrainBatch(c)

\* probs: torch.exp(p.detach()) of each sample
TrainProbs(samples) == [i \in 1..Len(samples) |-> [id |-> samples[i].id, ver |-> samples[i].ver]]

\* values: policy.value(st).detach() of each sample; lastvalue is that of the
\* state after the last sample
TrainValues(samples, policy) ==
    [i \in 1..Len(samples) |-> [id |-> samples[i].id, ver |-> policy.version]]

\* advantages: generalized_advantage_estimation of the values and rewards
TrainAdvantages(samples, policy) ==
    [i \in 1..Len(samples) |-> [id |-> samples[i].id, ver |-> policy.version]]

\* (mutant) the value of each sample is computed again with the network as it is
TrainPpoArgs_live(t, batchidx) ==
    [batchidx |-> batchidx,
     baseprobs |-> [j \in 1..Len(batchidx) |-> t.probs[batchidx[j]]],
     values |-> [j \in 1..Len(batchidx) |->
                    [id |-> t.values[batchidx[j]].id, ver |-> t.policy.version]],
     advantages |-> [j \in 1..Len(batchidx) |-> t.advantages[batchidx[j]]]]

\* the arguments of the ppostep call: [probs[i] for i in batchidx],
\* values[batchidx], advantages[batchidx]
TrainPpoArgs(t, batchidx) ==
    [batchidx |-> batchidx,
     baseprobs |-> [j \in 1..Len(batchidx) |-> t.probs[batchidx[j]]],
     values |-> [j \in 1..Len(batchidx) |-> t.values[batchidx[j]]],
     advantages |-> [j \in 1..Len(batchidx) |-> t.advantages[batchidx[j]]]]

\* optimizer.step() inside ppostep
PolicyStep(policy) == [policy EXCEPT !.version = policy.version + 1]

\* (mutant) a checkpoint at every iteration but the tenth ones
TrainSaveDue_inverted(networkupdates) == networkupdates % CheckpointEvery # 0

\* not networkupdates % 10
TrainSaveDue(networkupdates) == networkupdates % CheckpointEvery = 0

\* (mutant) the budget is checked against the number of network updates
TrainContinue_updates(t) == t.networkupdates < t.cfg.maxsteps

\* while totalsteps < maxsteps
TrainContinue(t) == t.totalsteps < t.cfg.maxsteps

(***************************************************************************)
(* Initial values of each part of the state                                *)
(***************************************************************************)
\* the wrapper chain right after wrap_env built it
PipeStart(c) ==
    /\ cfg = c
    /\ frames = <<>>
    /\ out = NoOut
    /\ nlog = <<>>
    /\ pc = "idle"
    /\ loc = SkipFrames_enter(0)

\* no adapter built yet
RemapStart ==
    /\ remap = [status |-> "none", buttonmap |-> <<>>, actions |-> <<>>,
                table |-> <<>>]
    /\ rets = <<>>

\* a generator object just created by experiencegenerator(env, policy, ...)
GenStart(windowlength, episodesteps) ==
    /\ gpc = "created"
    /\ gen = GenCreate(windowlength, episodesteps)
    /\ yielded = NoTuple
    /\ gg = NoHistory
    /\ calls = 0

\* a call of generalized_advantage_estimation about to be made
GaeStart(in) == gae = [stage |-> "called", in |-> in, out |-> NoGae]

\* the arguments of the call when another part of the program is studied
IdleGae ==
    [values |-> <<0>>, rewards |-> <<0>>, terminals |-> <<TRUE>>,
     lastvalue |-> 0, gamma |-> 2, lam |-> 2]

\* a call of ppostep about to be made; steps counts optimizer.step()
PpoStart(batch, epscut) ==
    ppo = [stage |-> "called", batch |-> batch, epscut |-> epscut, out |-> NoPpo,
           steps |-> 0]

\* the minibatch of the call when another part of the program is studied
IdlePpo == <<[ratio |-> 10, advantage |-> 0, value |-> 0, newvalue |-> 0]>>

\* nothing passed to ppostep yet
NoArgs == [batchidx |-> <<>>, baseprobs |-> <<>>, values |-> <<>>, advantages |-> <<>>]

\* the history at the start of an iteration of train: nothing collected, no
\* ppostep call made; ver is the network the iteration starts with
IterationStart(h, policy) ==
    [h EXCEPT !.ppocalls = 0, !.uses = <<>>, !.slices = <<>>, !.args = NoArgs,
              !.pulledatfirst = -1, !.captured = NoArgs, !.collectver = policy.version]

\* train(...) called with configuration c, the checkpoint file holding file
TrainStart(c, file) ==
    /\ tr = [pc |-> "load", cfg |-> c, policy |-> NewPolicy, totalsteps |-> 0,
             networkupdates |-> 0, samples |-> <<>>, probs |-> <<>>, values |-> <<>>,
             advantages |-> <<>>, optstep |-> 0, idx |-> <<>>, i |-> 0]
    /\ th = [loads |-> 0, loadfile |-> "none", pulled |-> 0, iterations |-> 0, ppocalls |-> 0, uses |-> <<>>,
             slices |-> <<>>, args |-> NoArgs, pulledatfirst |-> -1,
             captured |-> NoArgs, collectver |-> 0, saves |-> <<>>]
    /\ disk = file

IdleDisk == [state |-> "missing", policy |-> NewPolicy]

\* the configuration of train when another part of the program is studied
IdleTrain ==
    [maxsteps |-> 0, minibatchsize |-> 1, nminibatches |-> 1, optimizersteps |-> 1,
     restart |-> TRUE]

(***************************************************************************)
(* Specification of the wrapper chain                                      *)
(***************************************************************************)
Init ==
    /\ \E c \in Configs : PipeStart(c)
    /\ RemapStart
    /\ GenStart(1, [none |-> TRUE, n |-> 0])
    /\ GaeStart(IdleGae)
    /\ PpoStart(IdlePpo, 1)
    /\ TrainStart(IdleTrain, IdleDisk)

\* env.reset() on the wrapped environment
Reset ==
    /\ pc = "idle"
    /\ \E f \in RawFrames :
        LET r == wrap_env_reset(cfg, frames, f)
        IN  /\ frames' = r.frames
            /\ out' = r.out
    /\ nlog' = <<>>
    /\ UNCHANGED <<cfg, pc, loc, remapVars, genVars, gaeVars, ppoVars, trainVars>>

\* env.step(a) on the wrapped environment, one native step at a time: the call
\* enters SkipFrames.step (pc = "idle") or continues its loop (pc = "skip"),
\* the emulator answers res, and when the loop is left the outer wrappers
\* finish the call.
Step ==
    \E a \in Actions, res \in NativeResults :
        LET l0 == IF pc = "idle" THEN SkipFrames_enter(a) ELSE loc
            l1 == SkipFrames_iter(l0, wrap_env_inner(cfg, res))
            entry == [action |-> l0.action, frame |-> res.frame,
                      reward |-> res.reward, done |-> res.done]
        IN  /\ pc = "skip" => a = loc.action
            /\ nlog' = IF pc = "idle" THEN <<entry>> ELSE Append(nlog, entry)
            /\ loc' = l1
            /\ IF SkipFrames_exit(cfg.skipframes, l1)
               THEN LET r == wrap_env_outer(cfg, frames, l1)
                    IN  /\ frames' = r.frames
                        /\ out' = r.out
                        /\ pc' = "idle"
               ELSE /\ pc' = "skip"
                    /\ out' = [NoOut EXCEPT !.op = "pending"]
                    /\ UNCHANGED frames
            /\ UNCHANGED <<cfg, remapVars, genVars, gaeVars, ppoVars, trainVars>>

Next == Reset \/ Step

Spec == Init /\ [][Next]_vars

(***************************************************************************)
(* Specification of ButtonsRemapper                                        *)
(***************************************************************************)
InitRemap ==
    /\ PipeStart(CHOOSE c \in Configs : TRUE)
    /\ RemapStart
    /\ GenStart(1, [none |-> TRUE, n |-> 0])
    /\ GaeStart(IdleGae)
    /\ PpoStart(IdlePpo, 1)
    /\ TrainStart(IdleTrain, IdleDisk)

\* ButtonsRemapper(env, buttonmap, actions)
Construct ==
    /\ remap.status = "none"
    /\ \E bm \in ButtonMaps, al \in ActionLists :
            remap' = ButtonsRemapper_init(bm, al)
    /\ UNCHANGED <<rets, pipeVars, genVars, gaeVars, ppoVars, trainVars>>

\* action(a) on a constructed adapter, a in the Discrete(len(_actions)) action
\* space; the caller keeps the array (and forgets its oldest one when it holds
\* MaxHeld already)
Action ==
    /\ remap.status = "ok"
    /\ \E a \in DOMAIN remap.table :
            rets' = LastN(Append(rets, ButtonsRemapper_action(remap, a)), MaxHeld)
    /\ UNCHANGED <<remap, pipeVars, genVars, gaeVars, ppoVars, trainVars>>

\* the caller writes into an array it holds: every entry is negated in place
Mutate ==
    /\ \E r \in DOMAIN rets :
        LET neg == [j \in DOMAIN Deref(remap, rets[r]) |-> ~Deref(remap, rets[r])[j]]
        IN  IF rets[r].kind = "own"
            THEN /\ rets' = [rets EXCEPT ![r].val = neg]
                 /\ UNCHANGED remap
            ELSE /\ remap' = [remap EXCEPT !.table[rets[r].idx] = neg]
                 /\ UNCHANGED rets
    /\ UNCHANGED <<pipeVars, genVars, gaeVars, ppoVars, trainVars>>

NextRemap == Construct \/ Action \/ Mutate

SpecRemap == InitRemap /\ [][NextRemap]_vars


(***************************************************************************)
(* Specification of experiencegenerator                                    *)
(***************************************************************************)
InitGen ==
    /\ PipeStart(CHOOSE c \in Configs : TRUE)
    /\ RemapStart
    /\ \E k \in 1..MaxWindow, e \in EpisodeSteps : GenStart(k, e)
    /\ GaeStart(IdleGae)
    /\ PpoStart(IdlePpo, 1)
    /\ TrainStart(IdleTrain, IdleDisk)

\* next(expgen): the generator runs on from where it is suspended.  From its
\* yield it executes the rest of the inner loop body: it counts the step and
\* either leaves the inner loop (episode over) or goes round it again.
GenCall ==
    /\ gpc \in {"created", "yielded"}
    /\ calls < MaxCalls
    /\ calls' = calls + 1
    /\ IF gpc = "created"
       THEN /\ gpc' = "reset"
            /\ UNCHANGED <<gen, gg>>
       ELSE LET g == GenCount(gen, yielded)
            IN  IF GenEpisodeOver(g, yielded)
                THEN /\ gen' = GenEndEpisode(g)
                     /\ gpc' = GenAfterEpisode(g)
                     /\ gg' = [gg EXCEPT !.freshreset = FALSE]
                ELSE /\ gen' = GenAdvance(g, yielded)
                     /\ gpc' = "act"
                     /\ gg' = [gg EXCEPT !.freshreset = FALSE]
    /\ UNCHANGED <<yielded, pipeVars, remapVars, gaeVars, ppoVars, trainVars>>

\* top of the outer loop: observation = env.reset() and the reinitialisation
GenReset ==
    /\ gpc = "reset"
    /\ \E f \in Screens :
        /\ gen' = GenResetEpisode(gen, f)
        /\ gg' = [gg EXCEPT !.resetframe = f, !.freshreset = TRUE,
                            !.ephist = <<prepro(f)>>]
    /\ gpc' = "act"
    /\ UNCHANGED <<yielded, calls, pipeVars, remapVars, gaeVars, ppoVars, trainVars>>

\* the inner loop up to the yield: select_action, env.step, prepro, append,
\* stack, yield
GenAct ==
    /\ gpc = "act"
    /\ \E s \in Samples, res \in [frame : Screens, reward : GenRewards, done : BOOLEAN] :
        LET r == GenActStep(gen, s, res)
        IN  /\ gen' = [gen EXCEPT !.statesqueue = r.statesqueue]
            /\ yielded' = r.tuple
            /\ gg' = [gg EXCEPT !.st = r.st, !.envaction = r.envaction, !.sample = s,
                                !.afterdone = gg.lastdone, !.lastdone = res.done,
                                !.ephist = Append(gg.ephist, prepro(res.frame))]
    /\ gpc' = "yielded"
    /\ UNCHANGED <<calls, pipeVars, remapVars, gaeVars, ppoVars, trainVars>>

NextGen == GenCall \/ GenReset \/ GenAct

SpecGen == InitGen /\ [][NextGen]_vars

\* env.reset() and env.step() return, and a resumed generator keeps running
\* until it yields
FairSpecGen == SpecGen /\ WF_vars(GenReset) /\ WF_vars(GenAct)

(***************************************************************************)
(* Specification of generalized_advantage_estimation                       *)
(***************************************************************************)
InitGae ==
    /\ PipeStart(CHOOSE c \in Configs : TRUE)
    /\ RemapStart
    /\ GenStart(1, [none |-> TRUE, n |-> 0])
    /\ \E in \in GaeInputs : GaeStart(in)
    /\ PpoStart(IdlePpo, 1)
    /\ TrainStart(IdleTrain, IdleDisk)

\* the function runs and returns
GaeCall ==
    /\ gae.stage = "called"
    /\ gae' = [gae EXCEPT !.stage = "returned",
                          !.out = generalized_advantage_estimation(gae.in)]
    /\ UNCHANGED <<pipeVars, remapVars, genVars, ppoVars, trainVars>>

NextGae == GaeCall

SpecGae == InitGae /\ [][NextGae]_vars

(***************************************************************************)
(* Specification of ppostep                                                *)
(***************************************************************************)
InitPpo ==
    /\ PipeStart(CHOOSE c \in Configs : TRUE)
    /\ RemapStart
    /\ GenStart(1, [none |-> TRUE, n |-> 0])
    /\ GaeStart(IdleGae)
    /\ \E batch \in PpoBatches, epscut \in PpoEpscuts : PpoStart(batch, epscut)
    /\ TrainStart(IdleTrain, IdleDisk)

\* the function runs: the losses are computed, loss.backward() and
\* optimizer.step() update the network, and it returns
PpoCall ==
    /\ ppo.stage = "called"
    /\ ppo' = [ppo EXCEPT !.stage = "returned",
                          !.out = ppostep(ppo.batch, ppo.epscut),
                          !.steps = ppo.steps + 1]
    /\ UNCHANGED <<pipeVars, remapVars, genVars, gaeVars, trainVars>>

NextPpo == PpoCall

SpecPpo == InitPpo /\ [][NextPpo]_vars

(***************************************************************************)
(* Specification of train                                                  *)
(***************************************************************************)
InitTrain ==
    /\ PipeStart(CHOOSE c \in Configs : TRUE)
    /\ RemapStart
    /\ GenStart(1, [none |-> TRUE, n |-> 0])
    /\ GaeStart(IdleGae)
    /\ PpoStart(IdlePpo, 1)
    /\ \E c \in TrainConfigs, file \in DiskStates : TrainStart(c, file)

otherVars == <<pipeVars, remapVars, genVars, gaeVars, ppoVars>>

\* policy = loadnetwork(env, checkpoint, restart), then the optimizer and the
\* generator are created and the counters set to 0
TrainLoad ==
    /\ tr.pc = "load"
    /\ LET r == loadnetwork(disk, tr.cfg.restart)
       IN  /\ tr' = IF r.raised THEN [tr EXCEPT !.pc = "crashed"]
                    ELSE [tr EXCEPT !.pc = "while", !.policy = r.policy]
           /\ th' = [th EXCEPT !.loads = th.loads + r.reads, !.loadfile = disk.state]
    /\ UNCHANGED <<disk, otherVars>>

\* the test of the while loop, between iterations
TrainWhile ==
    /\ tr.pc = "while"
    /\ IF TrainContinue(tr)
       THEN /\ tr' = [tr EXCEPT !.pc = "collect", !.samples = <<>>]
            /\ th' = IterationStart(th, tr.policy)
       ELSE /\ tr' = [tr EXCEPT !.pc = "done"]
            /\ UNCHANGED th
    /\ UNCHANGED <<disk, otherVars>>

\* one next(expgen) of the list comprehension: the generator calls
\* policy.select_action and env.step, and yields
TrainPull ==
    /\ tr.pc = "collect"
    /\ LET samples == Append(tr.samples, TrainSample(th.pulled + 1, tr.policy))
       IN  tr' = [tr EXCEPT !.samples = samples,
                            !.pc = IF TrainCollected(samples, tr.cfg)
                                   THEN "estimate" ELSE "collect"]
    /\ th' = [th EXCEPT !.pulled = th.pulled + 1]
    /\ UNCHANGED <<disk, otherVars>>

\* totalsteps += minibatchsize * nminibatches; probs, values and lastvalue
\* are computed with the network as it is; the advantages are estimated
TrainEstimate ==
    /\ tr.pc = "estimate"
    /\ tr' = [tr EXCEPT !.totalsteps = tr.totalsteps + TrainBatch(tr.cfg),
                        !.probs = TrainProbs(tr.samples),
                        !.values = TrainValues(tr.samples, tr.policy),
                        !.advantages = TrainAdvantages(tr.samples, tr.policy),
                        !.optstep = 0,
                        !.pc = "shuffle"]
    /\ th' = [th EXCEPT !.captured =
                  [batchidx |-> [i \in 1..Len(tr.samples) |-> i],
                   baseprobs |-> TrainProbs(tr.samples),
                   values |-> TrainValues(tr.samples, tr.policy),
                   advantages |-> TrainAdvantages(tr.samples, tr.policy)],
              !.uses = [i \in 1..Len(tr.samples) |-> 0]]
    /\ UNCHANGED <<disk, otherVars>>

\* the start of an optimizer epoch: idx = np.random.permutation(...)
TrainShuffle ==
    /\ tr.pc = "shuffle"
    /\ \E perm \in np_random_permutation(Len(tr.samples)) :
           tr' = [tr EXCEPT !.idx = perm, !.i = 0, !.pc = "ppostep"]
    /\ th' = [th EXCEPT !.slices = <<>>]
    /\ UNCHANGED <<disk, otherVars>>

\* one minibatch: batchidx is sliced and ppostep called, which updates the
\* network; after the last minibatch of the last epoch the iteration ends
TrainPpostep ==
    /\ tr.pc = "ppostep"
    /\ LET batchidx == TrainBatchIdx(tr.idx, tr.i, tr.cfg.minibatchsize)
           lastbatch == tr.i + 1 >= tr.cfg.nminibatches
           lastepoch == tr.optstep + 1 >= tr.cfg.optimizersteps
       IN  /\ tr' = [tr EXCEPT !.policy = PolicyStep(tr.policy),
                               !.i = tr.i + 1,
                               !.optstep = IF lastbatch THEN tr.optstep + 1 ELSE tr.optstep,
                               !.pc = IF ~lastbatch THEN "ppostep"
                                      ELSE IF lastepoch THEN "enditer" ELSE "shuffle"]
           /\ th' = [th EXCEPT !.ppocalls = th.ppocalls + 1,
                               !.args = TrainPpoArgs(tr, batchidx),
                               !.slices = Append(th.slices, batchidx),
                               !.uses = [j \in DOMAIN th.uses |->
                                            th.uses[j] + Cardinality({x \in DOMAIN batchidx : batchidx[x] = j})],
                               !.pulledatfirst = IF th.pulledatfirst < 0 THEN th.pulled
                                                 ELSE th.pulledatfirst]
    /\ UNCHANGED <<disk, otherVars>>

\* networkupdates += 1 and, when due, torch.save(policy, checkpoint)
TrainEndIteration ==
    /\ tr.pc = "enditer"
    /\ tr' = [tr EXCEPT !.networkupdates = tr.networkupdates + 1, !.pc = "while"]
    /\ IF TrainSaveDue(tr.networkupdates + 1)
       THEN /\ disk' = torch_save(tr.policy)
            /\ th' = [th EXCEPT !.iterations = th.iterations + 1,
                                !.saves = Append(th.saves,
                                                 [iteration |-> th.iterations + 1,
                                                  ppocalls |-> th.ppocalls,
                                                  version |-> tr.policy.version])]
       ELSE /\ UNCHANGED disk
            /\ th' = [th EXCEPT !.iterations = th.iterations + 1]
    /\ UNCHANGED otherVars

TrainStepAction ==
    \/ TrainLoad
    \/ TrainWhile
    \/ TrainPull
    \/ TrainEstimate
    \/ TrainShuffle
    \/ TrainPpostep
    \/ TrainEndIteration

NextTrain == TrainStepAction

SpecTrain == InitTrain /\ [][NextTrain]_vars

\* the environment's steps return and train keeps running
FairSpecTrain == SpecTrain /\ WF_vars(TrainStepAction)

(***************************************************************************)
(* Claims about the wrappers                                               *)
(***************************************************************************)
\* pixel-wise maximum of two raw frames
PixMax(f, g) == [i \in DOMAIN f |-> Max(f[i], g[i])]

\* pixel-wise maximum of a non-empty sequence of raw frames
RECURSIVE PixMaxAll(_)
PixMaxAll(fs) ==
    IF Len(fs) = 1 THEN fs[1] ELSE PixMax(fs[1], PixMaxAll(Tail(fs)))

\* rewards SkipFrames saw from the environment it wraps, for the native steps
\* logged
InnerRewards == [i \in DOMAIN nlog |-> wrap_env_inner(cfg, nlog[i]).reward]

\* C1: every stacked observation FrameStack returns holds exactly k frames, and
\* the one reset() returns is k copies of the processed first frame of the new
\* episode, whatever the deque held before.
C1_FrameStack ==
    /\ (out.op \in {"reset", "step"} /\ out.err = "none") =>
            /\ out.nframes = cfg.stackframes
            /\ Len(frames) = cfg.stackframes
            /\ out.obs = LazyFrames_force(frames)
    /\ out.op = "reset" =>
            /\ out.err = "none"
            /\ frames = Copies(out.first, cfg.stackframes)
            /\ out.obs = LazyFrames_force(Copies(out.first, cfg.stackframes))

\* C1 witness: a reset of a stack of at least two frames that held frames of the
\* previous episode different from the new first frame.
C1_Witness ==
    /\ out.op = "reset"
    /\ out.stale
    /\ cfg.stackframes >= 2
    /\ Len(frames) = cfg.stackframes

\* C4: SkipFrames.step makes between 1 and skip native steps, all with the same
\* action, stops before skip only after a done, makes no step after a done,
\* returns the sum of the rewards of the steps made and the done flag of the
\* last one.
C4_SkipFrames ==
    /\ \A i \in DOMAIN nlog :
            /\ nlog[i].action = nlog[1].action
            /\ i < Len(nlog) => ~nlog[i].done
    /\ Len(nlog) <= cfg.skipframes
    /\ pc = "skip" =>
            /\ Len(nlog) >= 1
            /\ Len(nlog) < cfg.skipframes
            /\ ~nlog[Len(nlog)].done
    /\ out.op = "step" =>
            /\ pc = "idle"
            /\ Len(nlog) >= 1
            /\ Len(nlog) = cfg.skipframes \/ nlog[Len(nlog)].done
            /\ out.skip.i = Len(nlog)
            /\ out.skip.action = nlog[1].action
            /\ out.skip.total_reward = SumSeq(InnerRewards)
            /\ out.skip.done = nlog[Len(nlog)].done
            /\ out.err = "none" => out.done = nlog[Len(nlog)].done

\* C4 witness: a step that stopped early, on a done, with a non-zero reward.
C4_Witness ==
    /\ out.op = "step"
    /\ cfg.skipframes >= 2
    /\ Len(nlog) < cfg.skipframes
    /\ out.skip.done
    /\ out.skip.total_reward # 0

\* C5 (as claimed): for every pooling depth N, the observation SkipFrames.step
\* returns is the pixel-wise maximum of the last N raw frames of its native
\* steps.
C5_MaxPoolClaim ==
    out.op = "step" =>
        \A N \in 1..cfg.skipframes :
            out.skip.obs = PixMaxAll(LastN([i \in DOMAIN nlog |-> nlog[i].frame], N))

\* C6 (as claimed): reward shaping wraps frame skip, so the reward of a step
\* before the time penalty is the scaled (and, with cliprewards, clipped) sum
\* of the native rewards, and lies in {-1, 0, 1} when clipping is on.
C6_OrderClaim ==
    (out.op = "step" /\ out.err = "none") =>
        LET raw == SumSeq([i \in DOMAIN nlog |-> nlog[i].reward])
            scaled == RewardScaler_reward(raw, cfg.rewardscaling)
            pre == out.reward + cfg.timepenalty
        IN  /\ pre = IF cfg.cliprewards THEN RewardClipper_reward(scaled) ELSE scaled
            /\ cfg.cliprewards => pre \in {-1, 0, 1}

(***************************************************************************)
(* Claims about ButtonsRemapper                                            *)
(***************************************************************************)
\* the press-vector curated action number a names: True exactly at the
\* positions of the native buttons the action lists
Canonical(buttonmap, action) ==
    [j \in 1..Len(buttonmap) |-> \E b \in DOMAIN action : action[b] = buttonmap[j]]

\* some curated action names a button the native button list lacks
HasUnknownButton(buttonmap, actions) ==
    \E a \in DOMAIN actions : \E b \in DOMAIN actions[a] :
        \A j \in DOMAIN buttonmap : buttonmap[j] # actions[a][b]

\* C2: every action(i) returned the vector whose True entries are exactly the
\* buttons of curated action i, also after the caller wrote into vectors
\* returned earlier; the stored table keeps those vectors, and every returned
\* array is the caller's own.
C2_RoundTrip ==
    remap.status = "ok" =>
        /\ Len(remap.table) = Len(remap.actions)
        /\ \A i \in DOMAIN remap.table :
                remap.table[i] = Canonical(remap.buttonmap, remap.actions[i])
        /\ \A r \in DOMAIN rets :
                /\ rets[r].ret = Canonical(remap.buttonmap, remap.actions[rets[r].idx])
                /\ rets[r].kind = "own"

\* C2 witness: two vectors returned for the same two-button action, one of them
\* overwritten by the caller, the other one intact.
C2_Witness ==
    /\ remap.status = "ok"
    /\ Len(rets) = 2
    /\ rets[1].idx = rets[2].idx
    /\ Len(remap.actions[rets[1].idx]) = 2
    /\ Deref(remap, rets[1]) # rets[1].ret
    /\ Deref(remap, rets[2]) = rets[2].ret

\* C3 (as claimed): a curated action naming an unknown button makes the
\* constructor fail with InvalidActionError.
C3_InvalidActionError ==
    (remap.status # "none" /\ HasUnknownButton(remap.buttonmap, remap.actions)) =>
        remap.status = "InvalidActionError"

\* C3 (amended): a curated action naming an unknown button makes the
\* constructor fail with the ValueError of list.index, leaving no adapter;
\* otherwise the adapter has one vector per curated action.
C3_ValueError ==
    remap.status # "none" =>
        IF HasUnknownButton(remap.buttonmap, remap.actions)
        THEN /\ remap.status = "ValueError"
             /\ remap.table = <<>>
             /\ rets = <<>>
        ELSE /\ remap.status = "ok"
             /\ Len(remap.table) = Len(remap.actions)

\* C3 witness: the constructor failed on an action list whose first action is
\* valid.
C3_Witness ==
    /\ remap.status = "ValueError"
    /\ Len(remap.actions) >= 2
    /\ ~HasUnknownButton(remap.buttonmap, <<remap.actions[1]>>)

(***************************************************************************)
(* Claims about experiencegenerator                                        *)
(***************************************************************************)
\* the k most recent of the frames h, padded in front with copies of the
\* first frame while fewer than k exist
Window(h, k) ==
    IF Len(h) >= k THEN LastN(h, k) ELSE Copies(h[1], k - Len(h)) \o h

\* the yield that follows a yield with done = True
AfterDoneYield == gpc = "yielded" /\ gg.afterdone

\* C7: experiencegenerator never stops on its own; the transition yielded
\* after one with done = True comes from a freshly reset environment and its
\* stacked observation is k copies of the new episode's first processed
\* frame; every next() call eventually yields a transition.
C7_NeverStops ==
    /\ [](gpc # "stopped")
    /\ [](AfterDoneYield =>
            /\ gg.freshreset
            /\ yielded.observation = gg.resetframe
            /\ yielded.xbatch = Copies(prepro(gg.resetframe), gen.windowlength))
    /\ ((gpc \in {"reset", "act"}) ~> (gpc = "yielded"))

C7_Witness ==
    /\ AfterDoneYield
    /\ gen.windowlength = 2
    /\ gen.episode = 1
    /\ yielded.xbatch = <<prepro(ScreenQ), prepro(ScreenQ)>>
    /\ yielded.newxbatch = <<prepro(ScreenQ), prepro(ScreenP)>>

\* C8: at every yield, the stacked observation select_action was handed at
\* step t is the last k processed frames of the episode up to step t, padded
\* with the first frame while t < k-1; the action env.step received and the
\* (action, log-probability) of the yielded transition are the one sample
\* drawn at that step.
C8_StackAndSample ==
    gpc = "yielded" =>
        /\ Len(gg.ephist) = gen.step + 2
        /\ gg.st = Window(SubSeq(gg.ephist, 1, gen.step + 1), gen.windowlength)
        /\ yielded.xbatch = gg.st
        /\ gg.envaction = gg.sample.action
        /\ yielded.action = gg.sample.action
        /\ yielded.p = gg.sample.p

C8_Witness ==
    /\ gpc = "yielded"
    /\ gen.windowlength = 2
    /\ gen.step = 1
    /\ gg.ephist[1] # gg.ephist[2]
    /\ gg.st = <<gg.ephist[1], gg.ephist[2]>>
    /\ yielded.action = 1
    /\ yielded.p = -2

(***************************************************************************)
(* Claims about generalized_advantage_estimation                           *)
(***************************************************************************)
\* the recurrence as the specification writes it, by index, in units of 1/Q
RecDelta(in, t) ==
    LET next == IF t = Len(in.values) THEN in.lastvalue ELSE in.values[t + 1]
    IN  Q * in.rewards[t]
        + (Q \div 2) * in.gamma * next * (1 - (IF in.terminals[t] THEN 1 ELSE 0))
        - Q * in.values[t]

RECURSIVE RecA(_, _)
RecA(in, t) ==
    IF t = Len(in.values) THEN RecDelta(in, t)
    ELSE RecDelta(in, t)
         + (in.gamma * in.lam * (1 - (IF in.terminals[t] THEN 1 ELSE 0)) * RecA(in, t + 1)) \div 4

GaeReturned == gae.stage = "returned"

\* C9: before the normalization, delta and advantages are those of the
\* reverse recurrence of the specification, and at every t with
\* terminals[t] the advantage is rewards[t] - values[t].
C9_Recurrence ==
    GaeReturned =>
        \A t \in 1..Len(gae.in.values) :
            /\ gae.out.delta[t] = RecDelta(gae.in, t)
            /\ gae.out.advantages[t] = RecA(gae.in, t)
            /\ gae.in.terminals[t] =>
                   gae.out.advantages[t] = Q * (gae.in.rewards[t] - gae.in.values[t])

\* a segment of two episodes, whose first ends at index 1 with advantages after it
C9_Witness ==
    /\ GaeReturned
    /\ Len(gae.in.values) = 3
    /\ gae.in.terminals = <<TRUE, FALSE, TRUE>>
    /\ gae.in.gamma = 1
    /\ gae.in.lam = 1
    /\ gae.out.advantages[2] # 0
    /\ gae.out.advantages[2] # gae.out.delta[2]
    /\ gae.out.advantages[1] = Q

\* C10 as stated: with lam = 0 the advantage returned at every t is delta[t].
C10_ReturnedIsDelta ==
    (GaeReturned /\ gae.in.lam = 0) =>
        \A t \in 1..Len(gae.in.values) : gae.out.ret[t] * Q = gae.out.delta[t] * Res

\* C10: with lam = 0 the advantages before the normalization are the deltas,
\* and the array returned is the normalized deltas.
C10_TD0 ==
    (GaeReturned /\ gae.in.lam = 0) =>
        /\ gae.out.advantages = gae.out.delta
        /\ gae.out.ret = GaeNormalize(gae.out.delta)

\* lam = 0 with a non-terminal step followed by a non-zero advantage, and a
\* returned array that differs from the deltas
C10_Witness ==
    /\ GaeReturned
    /\ gae.in.lam = 0
    /\ Len(gae.in.values) = 2
    /\ ~gae.in.terminals[1]
    /\ gae.out.delta = <<Q, Q \div 2>>
    /\ gae.out.advantages = gae.out.delta
    /\ gae.out.ret = <<Res, -Res>>

\* a segment whose only terminal flag is at the last index and whose rewards
\* are zero at every other index
BoundarySegment(in) ==
    LET n == Len(in.values)
    IN  /\ in.terminals[n]
        /\ \A t \in 1..(n - 1) : ~in.terminals[t] /\ in.rewards[t] = 0

\* C11 as stated: on such a segment every returned advantage is the
\* normalized delta of the terminal step taken alone.
C11_AllEqualTerminalDelta ==
    (GaeReturned /\ BoundarySegment(gae.in)) =>
        \A t \in 1..Len(gae.in.values) :
            gae.out.ret[t] = GaeNormalize(<<gae.out.delta[Len(gae.in.values)]>>)[1]

\* C11: on such a segment lastvalue contributes to no advantage: the call
\* returns the same arrays for every lastvalue, the terminal step's
\* advantage before the normalization is rewards[-1] - values[-1], and with
\* all values zero the advantage of each earlier step is gamma * lam times
\* that of the step after it.
C11_Boundary ==
    (GaeReturned /\ BoundarySegment(gae.in)) =>
        LET n == Len(gae.in.values)
        IN  /\ \A v \in GaeValues :
                   generalized_advantage_estimation([gae.in EXCEPT !.lastvalue = v]) = gae.out
            /\ gae.out.advantages[n] = Q * (gae.in.rewards[n] - gae.in.values[n])
            /\ (\A t \in 1..n : gae.in.values[t] = 0) =>
                   \A t \in 1..(n - 1) :
                       4 * gae.out.advantages[t]
                           = gae.in.gamma * gae.in.lam * gae.out.advantages[t + 1]

\* a boundary segment with a non-zero bootstrap value, whose returned
\* advantages are not all equal
C11_Witness ==
    /\ GaeReturned
    /\ BoundarySegment(gae.in)
    /\ Len(gae.in.values) = 3
    /\ gae.in.lastvalue = 1
    /\ gae.in.values = <<0, 0, 0>>
    /\ gae.in.rewards[3] = 1
    /\ gae.in.gamma = 1
    /\ gae.in.lam = 2
    /\ gae.out.advantages = <<Q \div 4, Q \div 2, Q>>
    /\ gae.out.ret[1] < 0
    /\ gae.out.ret[3] > 0

PpoReturned == ppo.stage = "returned"

\* C13 as stated: for every sample the clipped new value is within epscut of
\* the old value, and the value loss of the sample is the larger of the
\* squared errors of the new value and of the new value clamped to
\* [value - epscut, value + epscut], against advantage + value.
C13_ValueClipClaim ==
    PpoReturned =>
        \A i \in 1..Len(ppo.batch) :
            LET x == ppo.batch[i]
                target == x.advantage + x.value
                clamped == torch_clamp(x.newvalue, x.value - ppo.epscut, x.value + ppo.epscut)
            IN  /\ Abs(ppo.out.newvalues_clipped[i] - x.value) <= ppo.epscut
                /\ ppo.out.worst[i] = Max((x.newvalue - target) * (x.newvalue - target),
                                          (clamped - target) * (clamped - target))

\* C14: for every sample the surrogate is at most its clipped branch and at
\* most a bound that does not depend on the ratio; beyond the clipping range
\* on the side the advantage favours, it is exactly the clipped branch.
C14_ClippingBound ==
    PpoReturned =>
        \A i \in 1..Len(ppo.batch) :
            LET x == ppo.batch[i]
                e == ppo.epscut
                surrogate == ppo.out.clippings[i]
            IN  /\ surrogate <= torch_clamp(x.ratio, 10 - e, 10 + e) * x.advantage
                /\ surrogate <= Max((10 - e) * x.advantage, (10 + e) * x.advantage)
                /\ (x.ratio >= 10 + e /\ x.advantage >= 0) =>
                       surrogate = (10 + e) * x.advantage
                /\ (x.ratio <= 10 - e /\ x.advantage <= 0) =>
                       surrogate = (10 - e) * x.advantage

\* ratios far above and far below the range, with advantages of both signs
C14_Witness ==
    /\ PpoReturned
    /\ ppo.epscut = 1
    /\ Len(ppo.batch) = 2
    /\ ppo.batch[1].ratio = 50
    /\ ppo.batch[1].advantage = 10
    /\ ppo.out.clippings[1] = 110
    /\ ppo.batch[2].ratio = 1
    /\ ppo.batch[2].advantage = -10
    /\ ppo.out.clippings[2] = -90

(***************************************************************************)
(* Claims about loadnetwork and train                                      *)
(***************************************************************************)
\* C15: the checkpoint has been written once for each multiple of 10 among
\* the iterations completed so far, at the end of iterations 10, 20, ...,
\* each time after all the optimizer steps of that iteration, and the file
\* holds the network as it was then.
C15_CheckpointEveryTen ==
    /\ Len(th.saves) = th.iterations \div 10
    /\ \A j \in 1..Len(th.saves) :
           /\ th.saves[j].iteration = 10 * j
           /\ th.saves[j].ppocalls = tr.cfg.optimizersteps * tr.cfg.nminibatches
           /\ th.saves[j].version = 10 * j * tr.cfg.optimizersteps * tr.cfg.nminibatches
    /\ th.saves # <<>> =>
           /\ disk.state = "saved"
           /\ disk.policy.version = th.saves[Len(th.saves)].version

\* twenty iterations done, two checkpoints written
C15_Witness ==
    /\ tr.pc = "done"
    /\ th.iterations = 20
    /\ Len(th.saves) = 2
    /\ th.saves[1].iteration = 10
    /\ th.saves[2].iteration = 20
    /\ tr.cfg.optimizersteps = 2

\* C16: loadnetwork lets no exception out.  With restart it does not read
\* the checkpoint and the network is fresh; without restart it reads it once,
\* and when the read fails the network is fresh too; train then goes on to
\* its loop.
C16_LoadNeverFails ==
    /\ tr.pc # "crashed"
    /\ tr.pc # "load" =>
           /\ tr.cfg.restart => (th.loads = 0 /\ tr.policy.origin = "fresh")
           /\ (~tr.cfg.restart /\ th.loadfile \in {"missing", "corrupt"}) =>
                  (th.loads = 1 /\ tr.policy.origin = "fresh")
           /\ (~tr.cfg.restart /\ th.loadfile = "saved") =>
                  (th.loads = 1 /\ tr.policy.origin = "checkpoint")

\* training under way on a fresh network after a corrupt checkpoint
C16_Witness ==
    /\ tr.pc = "ppostep"
    /\ ~tr.cfg.restart
    /\ th.loadfile = "corrupt"
    /\ th.loads = 1
    /\ tr.policy.origin = "fresh"
    /\ tr.policy.version = 1

\* train is past the collection of the current iteration
Optimizing == tr.pc \in {"shuffle", "ppostep", "enditer"}

\* C17: when the first ppostep of an iteration runs, all
\* minibatchsize * nminibatches transitions have been pulled and the old
\* values computed, all with the network the iteration started with; the
\* generator makes no step from the first ppostep of the iteration on; the
\* iteration ends after exactly optimizersteps * nminibatches ppostep calls.
C17_PhasesInSequence ==
    /\ Optimizing =>
           /\ Len(tr.samples) = TrainBatch(tr.cfg)
           /\ Len(tr.values) = TrainBatch(tr.cfg)
           /\ th.pulled = (th.iterations + 1) * TrainBatch(tr.cfg)
           /\ \A j \in 1..Len(tr.samples) :
                  /\ tr.samples[j].ver = th.collectver
                  /\ tr.values[j].ver = th.collectver
                  /\ tr.advantages[j].ver = th.collectver
           /\ th.ppocalls = tr.optstep * tr.cfg.nminibatches
                                + (IF tr.pc = "ppostep" THEN tr.i ELSE 0)
    /\ tr.pc \in {"collect", "estimate"} => th.ppocalls = 0
    /\ th.pulledatfirst >= 0 => th.pulled = th.pulledatfirst
    /\ tr.pc = "enditer" =>
           th.ppocalls = tr.cfg.optimizersteps * tr.cfg.nminibatches
    /\ th.ppocalls <= tr.cfg.optimizersteps * tr.cfg.nminibatches

\* the end of a second iteration of four transitions and four ppostep calls
C17_Witness ==
    /\ tr.pc = "enditer"
    /\ tr.cfg.minibatchsize = 2
    /\ tr.cfg.nminibatches = 2
    /\ tr.cfg.optimizersteps = 2
    /\ th.iterations = 1
    /\ th.ppocalls = 4
    /\ th.pulled = 8
    /\ th.collectver = 4
    /\ tr.policy.version = 8

\* C18: the probabilities, values and advantages of the segment stay as they
\* were captured before the first optimizer step of the iteration, and each
\* ppostep call is handed, for the samples of its minibatch, exactly those,
\* while the network itself moves on with every call.
C18_OldValuesFrozen ==
    /\ Optimizing =>
           /\ tr.probs = th.captured.baseprobs
           /\ tr.values = th.captured.values
           /\ tr.advantages = th.captured.advantages
    /\ (Optimizing /\ th.ppocalls >= 1) =>
           /\ tr.policy.version = th.collectver + th.ppocalls
           /\ \A j \in 1..Len(th.args.batchidx) :
                  /\ th.args.baseprobs[j] = th.captured.baseprobs[th.args.batchidx[j]]
                  /\ th.args.values[j] = th.captured.values[th.args.batchidx[j]]
                  /\ th.args.advantages[j] = th.captured.advantages[th.args.batchidx[j]]
                  /\ th.args.values[j].ver = th.collectver

\* the fourth ppostep call of an iteration, three optimizer steps after the
\* values were captured
C18_Witness ==
    /\ tr.pc = "enditer"
    /\ th.ppocalls = 4
    /\ Len(th.args.batchidx) = 2
    /\ th.args.batchidx = <<4, 1>>
    /\ th.args.values[1].ver = th.collectver
    /\ th.args.values[1].id = th.captured.values[4].id
    /\ tr.policy.version = th.collectver + 4

\* the indices of a slice, as a set
Indices(slice) == {slice[j] : j \in DOMAIN slice}

\* C19: every slice has minibatchsize indices; the slices of an epoch are
\* pairwise disjoint and, once the epoch is over, cover the segment; at the
\* end of the iteration every transition has been in exactly optimizersteps
\* ppostep calls.
C19_DisjointMinibatches ==
    Optimizing =>
        /\ \A a \in 1..Len(th.slices) :
               /\ Len(th.slices[a]) = tr.cfg.minibatchsize
               /\ Cardinality(Indices(th.slices[a])) = tr.cfg.minibatchsize
               /\ Indices(th.slices[a]) \subseteq 1..TrainBatch(tr.cfg)
        /\ \A a, b \in 1..Len(th.slices) :
               a # b => Indices(th.slices[a]) \cap Indices(th.slices[b]) = {}
        /\ (tr.pc \in {"shuffle", "enditer"} /\ th.ppocalls >= 1) =>
               /\ Len(th.slices) = tr.cfg.nminibatches
               /\ UNION {Indices(th.slices[a]) : a \in 1..Len(th.slices)}
                      = 1..TrainBatch(tr.cfg)
               /\ \A j \in 1..TrainBatch(tr.cfg) : th.uses[j] = tr.optstep
        /\ tr.pc = "enditer" =>
               \A j \in 1..TrainBatch(tr.cfg) : th.uses[j] = tr.cfg.optimizersteps

\* the end of an iteration of two epochs over four transitions, the last
\* epoch shuffled
C19_Witness ==
    /\ tr.pc = "enditer"
    /\ tr.cfg.optimizersteps = 2
    /\ th.slices = << <<3, 1>>, <<4, 2>> >>
    /\ th.uses = <<2, 2, 2, 2>>

\* ceil(maxsteps / (minibatchsize * nminibatches))
IterationsNeeded(c) == (c.maxsteps + TrainBatch(c) - 1) \div TrainBatch(c)

\* C20: train returns; it does so after exactly ceil(maxsteps / B)
\* iterations, each iteration begun is completed, the loop is left at the first
\* test between iterations that finds totalsteps >= maxsteps, and outside the
\* collection totalsteps is the number of transitions pulled.
C20_TrainTerminates ==
    /\ <>(tr.pc = "done")
    /\ [](tr.pc = "done" =>
            /\ th.iterations = IterationsNeeded(tr.cfg)
            /\ tr.totalsteps >= tr.cfg.maxsteps
            /\ th.pulled = th.iterations * TrainBatch(tr.cfg))
    /\ [](tr.pc = "while" =>
            /\ th.iterations <= IterationsNeeded(tr.cfg)
            /\ (th.iterations < IterationsNeeded(tr.cfg)) = (tr.totalsteps < tr.cfg.maxsteps))
    /\ [](tr.pc \notin {"load", "collect", "estimate"} => tr.totalsteps = th.pulled)
    /\ [](tr.pc \in {"collect", "estimate"} =>
            /\ tr.totalsteps = th.iterations * TrainBatch(tr.cfg)
            /\ th.pulled = tr.totalsteps + Len(tr.samples))

\* maxsteps = 3 with segments of 2: two iterations, 4 steps collected
C20_Witness ==
    /\ tr.pc = "done"
    /\ tr.cfg.maxsteps = 3
    /\ TrainBatch(tr.cfg) = 2
    /\ th.iterations = 2
    /\ tr.totalsteps = 4
    /\ th.pulled = 4

(***************************************************************************)
(* Claim about episode boundaries in experiencegenerator                   *)
(***************************************************************************)
\* a step of the generator that yields a transition after an earlier one:
\* yielded is the earlier transition, yielded' the one that follows it
NextYield == gpc = "act" /\ gpc' = "yielded" /\ yielded.valid

\* C21 as stated: when a yielded transition has done = False, the transition
\* yielded next comes from the same episode (no env.reset() in between) and
\* its stacked observation is the next stacked observation of the earlier
\* one; so every reset follows a transition with done = True.
C21_ResetOnlyAfterDone ==
    [][(NextYield /\ ~yielded.done) =>
           /\ ~gg'.freshreset
           /\ yielded'.xbatch = yielded.newxbatch
           /\ yielded'.observation = yielded.newobservation]_vars

====
